---- MODULE Spec2Model ----
(***************************************************************************)
(* Model of the icechips core tooling: generate-core.js (single manifest   *)
(* generator, CLI and library call), generate-cores.js (bulk generator),   *)
(* test-core.js (single simulation runner) and test-cores.js (bulk         *)
(* simulation runner).                                                     *)
(*                                                                         *)
(* A JavaScript string is a sequence of atoms.  An atom is a single        *)
(* character ("7", ":", " ") or a fixed chunk of characters that contains  *)
(* neither white space nor a colon ("icechips", "--verbose").  Substring   *)
(* search, prefix/suffix tests and ordering are computed on the sequences. *)
(***************************************************************************)
EXTENDS Integers, Sequences, FiniteSets, TLC

\* ------------------------------------------------------------------ bounds

\* Longest `fusesoc list-cores` output, in lines.
MaxLines == 3

\* ----------------------------------------------------------------- strings

\* JavaScript null / undefined (never equal to a string of atoms).
Null == <<"<null>">>

\* A falsy value on the left of `||`: null, undefined or the empty string.
Falsy(s) == s = Null \/ s = <<>>

\* String.prototype.startsWith
StartsWith(s, p) == Len(p) <= Len(s) /\ SubSeq(s, 1, Len(p)) = p

\* String.prototype.endsWith
EndsWith(s, p) == Len(p) <= Len(s) /\ SubSeq(s, Len(s) - Len(p) + 1, Len(s)) = p

\* String.prototype.includes
Includes(s, p) == \E i \in 0..(Len(s) - Len(p)) : SubSeq(s, i + 1, i + Len(p)) = p

\* Array.prototype.includes / indexOf on an array of strings (0 when absent,
\* else the 1-based position of the first occurrence).
IndexOf(arr, x) ==
  IF \E i \in 1..Len(arr) : arr[i] = x
  THEN CHOOSE i \in 1..Len(arr) : arr[i] = x /\ \A j \in 1..(i - 1) : arr[j] # x
  ELSE 0

\* The UTF-16 code unit an atom starts with.
CodeOf(a) ==
  CASE a = " " -> 32 [] a = "-" -> 45 [] a = "--verbose" -> 45 [] a = "-v" -> 45
    [] a = "." -> 46
    [] a = "0" -> 48 [] a = "1" -> 49 [] a = "2" -> 50 [] a = "4" -> 52
    [] a = "6" -> 54 [] a = "7" -> 55 [] a = "9" -> 57
    [] a = ":" -> 58
    [] a = "icechips" -> 105 [] a = "local" -> 108 [] a = "other" -> 111
    [] a = "ttl" -> 116
    [] OTHER -> 120

\* s < t in the order Array.prototype.sort() uses by default (code units).
RECURSIVE StrLess(_, _)
StrLess(s, t) ==
  IF t = <<>> THEN FALSE
  ELSE IF s = <<>> THEN TRUE
  ELSE IF CodeOf(Head(s)) # CodeOf(Head(t)) THEN CodeOf(Head(s)) < CodeOf(Head(t))
  ELSE StrLess(Tail(s), Tail(t))

\* Insert x into the sorted array arr, after the elements not greater than it.
RECURSIVE Insert(_, _)
Insert(arr, x) ==
  IF arr = <<>> THEN <<x>>
  ELSE IF StrLess(x, Head(arr)) THEN <<x>> \o arr
  ELSE <<Head(arr)>> \o Insert(Tail(arr), x)

\* Array.prototype.sort() with the default comparison (stable).
RECURSIVE Sort(_)
Sort(arr) ==
  IF arr = <<>> THEN <<>>
  ELSE Insert(Sort(SubSeq(arr, 1, Len(arr) - 1)), arr[Len(arr)])

\* Array.from(set): the members of a Set, in some insertion order.
RECURSIVE SetToSeq(_)
SetToSeq(S) ==
  IF S = {} THEN <<>>
  ELSE LET x == CHOOSE y \in S : TRUE IN <<x>> \o SetToSeq(S \ {x})

\* -------------------------------------------------------------- identifiers

Chip7400 == <<"7", "4", "0", "0">>
Chip74161 == <<"7", "4", "1", "6", "1">>
Chips == {Chip7400, Chip74161}

Version092 == <<"0", ".", "9", ".", "2">>
Version100 == <<"1", ".", "0", ".", "0">>
DefaultVersion == <<"0", ".", "1", ".", "0">>

\* `icechips:ttl:${chipNumber}:${version}`
CoreName(chipNumber, version) ==
  <<"icechips", ":", "ttl", ":">> \o chipNumber \o <<":">> \o version

\* `${chipNumber}.v` and `${chipNumber}-tb.v`
RtlFileName(chipNumber) == chipNumber \o <<".", "v">>
TbFileName(chipNumber) == chipNumber \o <<"-", "t", "b", ".", "v">>

\* path.join(projectRoot, 'source-7400', fileName)
SourcePath(fileName) == <<"<root>/", "source-7400/">> \o fileName

\* path.join(projectRoot, `icechips_${chipNumber}.core`)
CoreFilePath(chipNumber) == <<"<root>/", "icechips_">> \o chipNumber \o <<".core">>

\* ------------------------------------------------------------ file system

\* Verilog text is a sequence of lexical atoms: a word (an identifier or a
\* keyword, a maximal run of \w characters), a white-space character, or
\* another character or comment.
IsSpace(a) == a \in {" ", "\n", "\t"}
IsWord(a) == a \notin {" ", "\n", "\t", "#", "(", ")", ";", ",", "//"}

RtlModule(chipNumber) == IF chipNumber = Chip7400 THEN "ttl_7400" ELSE "ttl_74161"
RtlText(chipNumber) ==
  <<"//", "\n", "module", " ", RtlModule(chipNumber), " ", "#", "(", ")", ";", "\n">>
TbText == <<"//", "\n", "\n", " ", "module", " ", "test", ";", "\n">>
\* A file that declares no module: the keyword only inside a comment line,
\* and a declaration without its terminator.
NoModuleText == <<"//", " ", "module", " ", "x", ";", "\n", "module", " ", "y", "\n">>

\* The texts a logic-model file and a testbench file may hold.
RtlTexts(chipNumber) == {RtlText(chipNumber), NoModuleText}
TbTexts == {TbText, NoModuleText}

\* The project manifest package.json: missing, not JSON, or an object whose
\* version field may be absent.
PackageJsons ==
  { [state |-> "missing", version |-> Null],
    [state |-> "malformed", version |-> Null],
    [state |-> "ok", version |-> Null],
    [state |-> "ok", version |-> Version100] }

\* FsReadFileHelper.isExistingFile(fileName), base directory source-7400.
IsExistingFile(src, fileName) == fileName \in DOMAIN src

\* FsReadFileHelper.readFile(fileName), base directory source-7400.
ReadFile(src, fileName) == src[fileName]

\* ---------------------------------------------------------- generate-core.js

\* The position after the white space that starts at position i.
RECURSIVE SkipSpace(_, _)
SkipSpace(text, i) ==
  IF i <= Len(text) /\ IsSpace(text[i]) THEN SkipSpace(text, i + 1) ELSE i

\* /^\s*module\s+(\w+)\s*(?:#|\(|;)/m tried at position i: the captured
\* name, or Null.
ModuleAt(text, i) ==
  LET lineStart == i = 1 \/ text[i - 1] = "\n"
      kw == SkipSpace(text, i)
      name == SkipSpace(text, kw + 1)
      term == SkipSpace(text, name + 1)
  IN IF /\ lineStart
        /\ kw <= Len(text) /\ text[kw] = "module"
        /\ name > kw + 1
        /\ name <= Len(text) /\ IsWord(text[name])
        /\ term <= Len(text) /\ text[term] \in {"#", "(", ";"}
     THEN <<text[name]>>
     ELSE Null

extractModuleName(verilogContent) ==
  LET hits == {i \in 1..Len(verilogContent) : ModuleAt(verilogContent, i) # Null}
  IN IF hits = {} THEN Null
     ELSE ModuleAt(verilogContent, CHOOSE i \in hits : \A j \in hits : i <= j)

\* Returns [threw, value, error]: fs.readFileSync and JSON.parse throw.
getVersionFromPackageJson(pkg) ==
  CASE pkg.state = "missing" ->
         [threw |-> TRUE, value |-> Null,
          error |-> <<"ENOENT: no such file or directory, open ", "<root>/", "package.json">>]
    [] pkg.state = "malformed" ->
         [threw |-> TRUE, value |-> Null, error |-> <<"Unexpected token in JSON">>]
    [] OTHER ->
         [threw |-> FALSE,
          value |-> IF Falsy(pkg.version) THEN DefaultVersion ELSE pkg.version,
          error |-> Null]

\* The manifest text, as its lines.
generateCoreFile(chipNumber, version, rtlModuleName, tbModuleName) ==
  LET coreName == CoreName(chipNumber, version)
  IN << <<"CAPI=2:">>,
        <<"name: ">> \o coreName,
        <<>>,
        <<"# Note: File order matters for iverilog! RTL must come last because">>,
        <<"# the testbench instantiates the DUT module, so the module must be">>,
        <<"# defined before instantiation. Iverilog processes files sequentially">>,
        <<"# and doesn't do multiple passes.">>,
        <<"# Macro dependencies must also be defined first.">>,
        <<>>,
        <<"filesets:">>,
        <<"  rtl:">>,
        <<"    files:">>,
        <<"      - includes/helper.v">>,
        <<"      - source-7400/">> \o chipNumber \o <<".v">>,
        <<"    file_type: verilogSource">>,
        <<>>,
        <<"  tb:">>,
        <<"    files:">>,
        <<"      - includes/tbhelper.v">>,
        <<"      - source-7400/">> \o chipNumber \o <<"-tb.v">>,
        <<"    file_type: verilogSource">>,
        <<>>,
        <<"targets:">>,
        <<"  default:">>,
        <<"    filesets: [rtl]">>,
        <<"    toplevel: ">> \o rtlModuleName,
        <<"  sim:">>,
        <<"    filesets: [tb, rtl]">>,
        <<"    toplevel: ">> \o tbModuleName,
        <<"    default_tool: icarus">>,
        <<"    tools:">>,
        <<"      icarus: {iverilog_options: [-g2012]}">> >>

\* fs.writeFileSync(path.join(projectRoot, `icechips_${chipNumber}.core`), content)
WriteCoreFile(root, chipNumber, content) ==
  [c \in DOMAIN root \cup {chipNumber} |-> IF c = chipNumber THEN content ELSE root[c]]

\* ResolveVersion with the operands of `||` exchanged: package.json is read
\* first, and what it gives (a version or the default) is never falsy.
ResolveVersionPackageFirst(version, pkg) == getVersionFromPackageJson(pkg)

\* `version || getVersionFromPackageJson(projectRoot)`, as [threw, value, error].
ResolveVersion(version, pkg) ==
  IF Falsy(version) THEN getVersionFromPackageJson(pkg)
  ELSE [threw |-> FALSE, value |-> version, error |-> Null]

\* GenerateCoreForChipTry with the manifest written as soon as both source
\* files are known to exist, before the module names are looked at.
GenerateCoreForChipTryEagerWrite(chipNumber, fs, version) ==
  LET finalVersion == getVersionFromPackageJson(fs.pkg)
      picked == IF Falsy(version) THEN finalVersion.value ELSE version
      rtlFileName == RtlFileName(chipNumber)
      tbFileName == TbFileName(chipNumber)
      rtlModuleName == extractModuleName(ReadFile(fs.src, rtlFileName))
      tbModuleName == extractModuleName(ReadFile(fs.src, tbFileName))
      written == WriteCoreFile(fs.root, chipNumber,
                   generateCoreFile(chipNumber, picked, rtlModuleName, tbModuleName))
  IN IF Falsy(version) /\ finalVersion.threw
     THEN [threw |-> TRUE, error |-> finalVersion.error, result |-> Null, root |-> fs.root]
     ELSE IF ~IsExistingFile(fs.src, rtlFileName)
     THEN [threw |-> FALSE, error |-> Null, root |-> fs.root,
           result |-> [success |-> FALSE,
                       message |-> <<"RTL file not found: ">> \o SourcePath(rtlFileName)]]
     ELSE IF ~IsExistingFile(fs.src, tbFileName)
     THEN [threw |-> FALSE, error |-> Null, root |-> fs.root,
           result |-> [success |-> FALSE,
                       message |-> <<"Testbench file not found: ">> \o SourcePath(tbFileName)]]
     ELSE IF Falsy(rtlModuleName)
     THEN [threw |-> FALSE, error |-> Null, root |-> written,
           result |-> [success |-> FALSE,
                       message |-> <<"Could not extract module name from ">> \o rtlFileName]]
     ELSE IF Falsy(tbModuleName)
     THEN [threw |-> FALSE, error |-> Null, root |-> written,
           result |-> [success |-> FALSE,
                       message |-> <<"Could not extract module name from ">> \o tbFileName]]
     ELSE [threw |-> FALSE, error |-> Null, root |-> written,
           result |-> [success |-> TRUE,
                       message |-> <<"Generated core file: ">> \o CoreFilePath(chipNumber),
                       chipNumber |-> chipNumber,
                       rtlModuleName |-> rtlModuleName,
                       tbModuleName |-> tbModuleName]]

\* The try block of generateCoreForChip(chipNumber, projectRoot, version) on
\* the project tree fs = [src, pkg, root]: [threw, error, result, root].
GenerateCoreForChipTry(chipNumber, fs, version) ==
  LET finalVersion == ResolveVersion(version, fs.pkg)
      rtlFileName == RtlFileName(chipNumber)
      tbFileName == TbFileName(chipNumber)
      rtlModuleName == extractModuleName(ReadFile(fs.src, rtlFileName))
      tbModuleName == extractModuleName(ReadFile(fs.src, tbFileName))
      Failure(message) ==
        [threw |-> FALSE, error |-> Null,
         result |-> [success |-> FALSE, message |-> message], root |-> fs.root]
  IN IF finalVersion.threw
     THEN [threw |-> TRUE, error |-> finalVersion.error, result |-> Null, root |-> fs.root]
     ELSE IF ~IsExistingFile(fs.src, rtlFileName)
     THEN Failure(<<"RTL file not found: ">> \o SourcePath(rtlFileName))
     ELSE IF ~IsExistingFile(fs.src, tbFileName)
     THEN Failure(<<"Testbench file not found: ">> \o SourcePath(tbFileName))
     ELSE IF Falsy(rtlModuleName)
     THEN Failure(<<"Could not extract module name from ">> \o rtlFileName)
     ELSE IF Falsy(tbModuleName)
     THEN Failure(<<"Could not extract module name from ">> \o tbFileName)
     ELSE [threw |-> FALSE, error |-> Null,
           result |-> [success |-> TRUE,
                       message |-> <<"Generated core file: ">> \o CoreFilePath(chipNumber),
                       chipNumber |-> chipNumber,
                       rtlModuleName |-> rtlModuleName,
                       tbModuleName |-> tbModuleName],
           root |-> WriteCoreFile(fs.root, chipNumber,
                      generateCoreFile(chipNumber, finalVersion.value,
                                       rtlModuleName, tbModuleName))]

\* generateCoreForChip without its catch: what the try block throws reaches
\* the caller.
GenerateCoreForChipNoCatch(chipNumber, fs, version) ==
  GenerateCoreForChipTry(chipNumber, fs, version)

\* generateCoreForChip: the try block, and the catch that turns whatever it
\* throws into a failure Result.
generateCoreForChip(chipNumber, fs, version) ==
  LET try == GenerateCoreForChipTry(chipNumber, fs, version)
  IN IF try.threw
     THEN [threw |-> FALSE, error |-> Null,
           result |-> [success |-> FALSE,
                       message |-> <<"Error processing ">> \o chipNumber \o <<": ">> \o try.error],
           root |-> try.root]
     ELSE try

\* process.argv.slice(2)[i - 1], undefined past the end.
Arg(args, i) == IF i <= Len(args) THEN args[i] ELSE Null

\* `args[i - 1] || null`
ArgOrNull(args, i) == IF Falsy(Arg(args, i)) THEN Null ELSE Arg(args, i)

GenerateCoreUsage == <<"Usage: node generate-core.js <chip-number> [version]">>

\* main() of generate-core.js on the project tree fs: how it ends ("exit":
\* process.exit(code); "return"; "throw": an exception leaves main), what it
\* printed and the root's manifest files.
GenerateCoreMain(args, fs) ==
  LET chipNumber == args[1]
      version == ArgOrNull(args, 2)
      finalVersion == ResolveVersion(version, fs.pkg)
      rtlFileName == RtlFileName(chipNumber)
      tbFileName == TbFileName(chipNumber)
      rtlModuleName == extractModuleName(ReadFile(fs.src, rtlFileName))
      tbModuleName == extractModuleName(ReadFile(fs.src, tbFileName))
      Exit1(message) ==
        [end |-> "exit", code |-> 1, stdout |-> <<>>, stderr |-> <<message>>,
         root |-> fs.root]
  IN IF Len(args) < 1
     THEN Exit1(GenerateCoreUsage)
     ELSE IF finalVersion.threw
     THEN [end |-> "throw", code |-> 0, stdout |-> <<>>, stderr |-> <<>>, root |-> fs.root]
     ELSE IF ~IsExistingFile(fs.src, rtlFileName)
     THEN Exit1(<<"Error: RTL file not found: ">> \o SourcePath(rtlFileName))
     ELSE IF ~IsExistingFile(fs.src, tbFileName)
     THEN Exit1(<<"Error: Testbench file not found: ">> \o SourcePath(tbFileName))
     ELSE IF Falsy(rtlModuleName)
     THEN Exit1(<<"Error: Could not extract module name from ">> \o rtlFileName)
     ELSE IF Falsy(tbModuleName)
     THEN Exit1(<<"Error: Could not extract module name from ">> \o tbFileName)
     ELSE [end |-> "return", code |-> 0,
           stdout |-> << <<"Extracted RTL module name: ">> \o rtlModuleName,
                         <<"Extracted testbench module name: ">> \o tbModuleName,
                         <<"Generated core file: ">> \o CoreFilePath(chipNumber) >>,
           stderr |-> <<>>,
           root |-> WriteCoreFile(fs.root, chipNumber,
                      generateCoreFile(chipNumber, finalVersion.value,
                                       rtlModuleName, tbModuleName))]

\* The entry point of generate-core.js: `try { ... main() ... } catch (error) {}`.
\* The exit status of the process: that of process.exit, else 0 (main
\* returned, or the catch swallowed what main threw).
GenerateCoreEntryPoint(args, fs) ==
  LET m == GenerateCoreMain(args, fs)
  IN [m EXCEPT !.code = IF m.end = "exit" THEN m.code ELSE 0]

\* --------------------------------------------------------- generate-cores.js

IsDigit(a) == a \in {"0", "1", "2", "3", "4", "5", "6", "7", "8", "9"}

\* extractChipNumber(fileName): /^([0-9]+)\.v$/ and no '-tb' in the name.
extractChipNumber(fileName) ==
  LET n == Len(fileName) - 2
  IN IF /\ n >= 1
        /\ SubSeq(fileName, n + 1, n + 2) = <<".", "v">>
        /\ \A i \in 1..n : IsDigit(fileName[i])
        /\ ~Includes(fileName, <<"-", "t", "b">>)
     THEN SubSeq(fileName, 1, n)
     ELSE Null

\* getAllChipNumbers(sourceDir): the chip numbers of the directory's entries,
\* without duplicates, sorted.
getAllChipNumbers(src) ==
  LET files == DOMAIN src
      chipNumbers ==
        { extractChipNumber(f) :
            f \in { g \in files : /\ EndsWith(g, <<".", "v">>)
                                  /\ ~Includes(g, <<"-", "t", "b", ".", "v">>)
                                  /\ ~Falsy(extractChipNumber(g)) } }
  IN Sort(SetToSeq(chipNumbers))

\* -------------------------------------------------------------- test-core.js

\* isFuseSoCAvailable taking the probe's failure for success.
isFuseSoCAvailableAlways(o) == TRUE

\* isFuseSoCAvailable(): whether `which fusesoc` succeeds.
isFuseSoCAvailable(o) == o.available

\* coreFileExists(chipNumber, projectRoot): fs.existsSync of the manifest path.
coreFileExists(chipNumber, root) == chipNumber \in DOMAIN root

\* getFullCoreName(chipNumber, projectRoot), as [threw, value, error].
getFullCoreName(chipNumber, pkg) ==
  LET version == getVersionFromPackageJson(pkg)
  IN IF version.threw THEN version
     ELSE [version EXCEPT !.value = CoreName(chipNumber, version.value)]

\* parseCoreName without the coreFileExists check.
parseCoreNameNoCheck(input, fs) ==
  IF Includes(input, <<":">>)
  THEN [threw |-> FALSE, value |-> input, error |-> Null, calls |-> <<>>]
  ELSE LET full == getFullCoreName(input, fs.pkg)
       IN [threw |-> full.threw, value |-> full.value, error |-> full.error,
           calls |-> << [op |-> "readPackageJson", arg |-> <<"<root>/", "package.json">>,
                         ok |-> ~full.threw] >>]

\* parseCoreName(input, projectRoot), as [threw, value, error, calls]: calls
\* are the files it looked up.
parseCoreName(input, fs) ==
  IF Includes(input, <<":">>)
  THEN [threw |-> FALSE, value |-> input, error |-> Null, calls |-> <<>>]
  ELSE IF ~coreFileExists(input, fs.root)
  THEN [threw |-> TRUE, value |-> Null,
        error |-> <<"Core file not found for chip ">> \o input
                    \o <<". Expected: icechips_">> \o input \o <<".core">>,
        calls |-> << [op |-> "exists", arg |-> CoreFilePath(input), ok |-> FALSE] >>]
  ELSE LET full == getFullCoreName(input, fs.pkg)
       IN [threw |-> full.threw, value |-> full.value, error |-> full.error,
           calls |-> << [op |-> "exists", arg |-> CoreFilePath(input), ok |-> TRUE],
                        [op |-> "readPackageJson", arg |-> <<"<root>/", "package.json">>,
                         ok |-> ~full.threw] >>]

\* runFuseSoCSim reporting success whatever the command's exit status.
RunFuseSoCSimIgnoringStatus(coreName, verbose, passed) ==
  [success |-> TRUE,
   output |-> IF verbose THEN Null ELSE <<"<simulation output>">>,
   message |-> <<"Simulation completed successfully for ">> \o coreName]

\* runFuseSoCSim(coreName, verbose) when `fusesoc run --target=sim <coreName>`
\* ends as `passed` tells: the Result.
runFuseSoCSim(coreName, verbose, passed) ==
  IF passed
  THEN [success |-> TRUE,
        output |-> IF verbose THEN Null ELSE <<"<simulation output>">>,
        message |-> <<"Simulation completed successfully for ">> \o coreName]
  ELSE [success |-> FALSE,
        output |-> <<"<captured output>">>,
        message |-> <<"Simulation failed for ">> \o coreName \o <<": ", "Command failed">>]

TestCoreUsage == <<"Usage: node test-core.js <core-name> [--verbose]">>
InstallGuidance ==
  << <<"Error: fusesoc command not found.">>,
     <<>>,
     <<"Please install FuseSoC and ensure it is in your PATH.">>,
     <<"FuseSoC can be installed with: pip install fusesoc">> >>

\* `args.includes('--verbose') || args.includes('-v')`
IsVerbose(args) == IndexOf(args, <<"--verbose">>) # 0 \/ IndexOf(args, <<"-v">>) # 0

\* ------------------------------------------------------------- test-cores.js

\* /^(icechips:ttl:[^\s:]+)/ on a line: the captured text, or Null.
RECURSIVE TokenEnd(_, _)
TokenEnd(line, i) ==
  IF i <= Len(line) /\ ~IsSpace(line[i]) /\ line[i] # ":" THEN TokenEnd(line, i + 1) ELSE i

MatchCore(line) ==
  LET prefix == <<"icechips", ":", "ttl", ":">>
      end == TokenEnd(line, Len(prefix) + 1)
  IN IF StartsWith(line, prefix) /\ end > Len(prefix) + 1
     THEN SubSeq(line, 1, end - 1)
     ELSE Null

\* The loop of getAllIceChipsCores over the lines of the output.
RECURSIVE CollectCores(_)
CollectCores(lines) ==
  IF lines = <<>> THEN <<>>
  ELSE LET line == lines[Len(lines)]
           rest == CollectCores(SubSeq(lines, 1, Len(lines) - 1))
       IN IF Includes(line, <<"icechips", ":", "ttl", ":">>) /\ MatchCore(line) # Null
          THEN Append(rest, MatchCore(line))
          ELSE rest

\* getAllIceChipsCores(), as [threw, value, error], with the orchestrator o:
\* o.listing is the output of `fusesoc list-cores`, split at '\n', and
\* o.listFails tells that the command fails.
getAllIceChipsCores(o) ==
  IF o.listFails
  THEN [threw |-> TRUE, value |-> <<>>,
        error |-> <<"Failed to list cores: ", "Command failed: fusesoc list-cores">>]
  ELSE [threw |-> FALSE, value |-> Sort(CollectCores(o.listing)), error |-> Null]

\* filterCores keeping the cores that start with the pattern.
filterCoresPrefix(cores, pattern) ==
  IF Falsy(pattern) THEN cores
  ELSE SelectSeq(cores, LAMBDA core : StartsWith(core, pattern))

\* filterCores(cores, pattern)
filterCores(cores, pattern) ==
  IF Falsy(pattern) THEN cores
  ELSE SelectSeq(cores, LAMBDA core : Includes(core, pattern))

\* The --filter option of test-cores.js: the argument after the first
\* '--filter', when there is one and it is not empty.
FilterPattern(args) ==
  LET filterIndex == IndexOf(args, <<"--filter">>)
  IN IF filterIndex # 0 /\ ~Falsy(Arg(args, filterIndex + 1))
     THEN Arg(args, filterIndex + 1)
     ELSE Null

\* Cores are listed one by one when there are at most this many.
ListAllLimit == 10

\* A count, as console.log prints it.
RECURSIVE NumStr(_)
NumStr(n) ==
  LET digits == <<"0", "1", "2", "3", "4", "5", "6", "7", "8", "9">>
  IN IF n < 10 THEN <<digits[n + 1]>> ELSE NumStr(n \div 10) \o <<digits[(n % 10) + 1]>>

\* -------------------------------------------------------------------- state

VARIABLES
  script,        \* the script node runs ("caller": a module that imports
                 \* generate-core.js and calls generateCoreForChip)
  argv,          \* process.argv.slice(2); for the caller, the call's arguments
  fs,            \* the project tree: [src, pkg, root]
  root0,         \* the root's manifest files when the run started
  fusesoc,       \* the orchestrator: [available, listFails, listing]
  pc,            \* where the run is
  verbose,       \* const verbose
  filterPattern, \* let filterPattern
  discovered,    \* what getAllIceChipsCores() returned
  items,         \* chipNumbers (generate-cores.js), cores (test-cores.js)
  index,         \* how many items forEach has been through
  successCount,
  failureCount,
  failures,
  coreName,      \* let coreName (test-core.js)
  ret,           \* what the caller's call gave: [threw, result]
  stdout,
  stderr,
  exitCode,      \* the exit status of the process, -1 while it runs
  calls          \* [op, arg, ok]: the orchestrator commands run and the project
                 \* files looked up by the test runners, and the items handed
                 \* to generateCoreForChip by the bulk generator, in order

vars == <<script, argv, fs, root0, fusesoc, pc, verbose, filterPattern, discovered,
          items, index, successCount, failureCount, failures, coreName, ret,
          stdout, stderr, exitCode, calls>>

\* A manifest left by an earlier run.
OldManifest(chipNumber) ==
  generateCoreFile(chipNumber, DefaultVersion, <<"old_rtl">>, <<"old_tb">>)

\* The directory source-7400 in which each chip's logic model and testbench
\* are as r and t tell ("absent", "module": declares a module, "none":
\* declares none); readme.v is not a chip file.
SourceDir(r, t) ==
  LET rtl == {RtlFileName(c) : c \in {d \in Chips : r[d] # "absent"}}
      tb == {TbFileName(c) : c \in {d \in Chips : t[d] # "absent"}}
      ChipOf(f) == CHOOSE c \in Chips : f \in {RtlFileName(c), TbFileName(c)}
  IN [f \in rtl \cup tb \cup {<<"readme", ".", "v">>} |->
        IF f \in rtl
        THEN (IF r[ChipOf(f)] = "module" THEN RtlText(ChipOf(f)) ELSE NoModuleText)
        ELSE IF f \in tb
        THEN (IF t[ChipOf(f)] = "module" THEN TbText ELSE NoModuleText)
        ELSE NoModuleText]

FileStates == {"absent", "module", "none"}
SourceDirs == {SourceDir(r, t) : r \in [Chips -> FileStates], t \in [Chips -> FileStates]}
CompleteSourceDir == SourceDir([c \in Chips |-> "module"], [c \in Chips |-> "module"])

\* The manifests the project root may hold when a run starts.
Roots == {[c \in S |-> OldManifest(c)] : S \in SUBSET Chips}

\* The project trees; source-7400 itself may be missing.
Trees ==
  [srcExists : {TRUE}, src : SourceDirs, pkg : PackageJsons, root : Roots]
    \cup [srcExists : {FALSE}, src : {<<>>}, pkg : PackageJsons, root : Roots]

\* The trees whose sources are complete (the test runners read none of them).
BuiltTrees == {t \in Trees : t.srcExists /\ t.src = CompleteSourceDir}

\* A core as `fusesoc list-cores` lists it, and the other lines of its output.
CoreLine(chipNumber, version) == CoreName(chipNumber, version) \o <<" ", ":", " ", "local">>
ListingLines ==
  { CoreLine(Chip7400, Version092),
    CoreLine(Chip74161, Version092),
    <<"other", ":", "ttl", ":", "x", ":", "1">>,
    <<" ">> \o CoreLine(Chip74161, Version100) }

RECURSIVE SeqsUpTo(_, _)
SeqsUpTo(S, n) ==
  IF n = 0 THEN {<<>>}
  ELSE LET shorter == SeqsUpTo(S, n - 1)
       IN shorter \cup {Append(q, x) : q \in shorter, x \in S}

\* The orchestrator: not installed; installed with list-cores failing; or
\* installed and listing at most MaxLines lines.
Orchestrators ==
  {[available |-> a, listFails |-> TRUE, listing |-> <<>>] : a \in BOOLEAN}
    \cup {[available |-> TRUE, listFails |-> FALSE, listing |-> l] :
             l \in SeqsUpTo(ListingLines, MaxLines)}

\* The command lines.
GenerateCoreArgs ==
  {<<>>} \cup {<<c>> : c \in Chips} \cup {<<c, v>> : c \in Chips, v \in {<<>>, Version092}}
CallerArgs ==
  {<<c>> : c \in Chips} \cup {<<c, v>> : c \in Chips, v \in {<<>>, Version092}}
GenerateCoresArgs == {<<>>, <<Version092>>}
TestCoreArgs ==
  LET full == CoreName(Chip7400, Version092)
  IN { <<>>, << <<"--verbose">> >>, << <<"-v">> >>,
       <<Chip7400>>, <<Chip7400, <<"--verbose">> >>, << <<"-v">>, Chip7400>>,
       <<full>>, <<full, <<"-v">> >> }
TestCoresArgs ==
  { <<>>, << <<"--verbose">> >>, << <<"--filter">> >>,
    << <<"--filter">>, <<"7", "4", "1", "6">> >>,
    << <<"-v">>, <<"--filter">>, <<"7", "4">> >>,
    << <<"--filter">>, <<"9", "9", "9", "9">> >>,
    << <<"--filter">>, <<"--verbose">> >> }

Start(s, a, t, o) ==
  /\ script = s /\ argv = a /\ fs = t /\ root0 = t.root /\ fusesoc = o
  /\ pc = "start"
  /\ verbose = FALSE /\ filterPattern = Null
  /\ discovered = <<>> /\ items = <<>> /\ index = 0
  /\ successCount = 0 /\ failureCount = 0 /\ failures = <<>>
  /\ coreName = Null /\ ret = Null
  /\ stdout = <<>> /\ stderr = <<>> /\ exitCode = -1 /\ calls = <<>>

NoOrchestrator == [available |-> FALSE, listFails |-> TRUE, listing |-> <<>>]

Init ==
  \/ \E a \in GenerateCoreArgs, t \in Trees :
       t.srcExists /\ Start("generate-core.js", a, t, NoOrchestrator)
  \/ \E a \in CallerArgs, t \in Trees :
       t.srcExists /\ Start("caller", a, t, NoOrchestrator)
  \/ \E a \in GenerateCoresArgs, t \in Trees :
       Start("generate-cores.js", a, t, NoOrchestrator)
  \/ \E a \in TestCoreArgs, t \in BuiltTrees, o \in Orchestrators :
       o.listFails /\ Start("test-core.js", a, t, o)
  \/ \E a \in TestCoresArgs, t \in BuiltTrees, o \in Orchestrators :
       /\ t.root = [c \in Chips |-> OldManifest(c)] /\ t.pkg.version = Version100
       /\ Start("test-cores.js", a, t, o)

\* ------------------------------------------------------------------ actions

\* Variables no script but test-cores.js and generate-cores.js assigns.
loopVars == <<discovered, items, index, successCount, failureCount, failures>>

\* `node generate-core.js <args>`: the entry point runs main().
RunGenerateCore ==
  /\ script = "generate-core.js" /\ pc = "start"
  /\ LET m == GenerateCoreEntryPoint(argv, fs)
     IN /\ fs' = [fs EXCEPT !.root = m.root]
        /\ stdout' = m.stdout
        /\ stderr' = m.stderr
        /\ exitCode' = m.code
  /\ pc' = "done"
  /\ UNCHANGED <<script, argv, root0, fusesoc, verbose, filterPattern, loopVars,
                 coreName, ret, calls>>

\* A module that imported generate-core.js calls
\* generateCoreForChip(chipNumber, projectRoot[, version]).
CallGenerateCoreForChip ==
  /\ script = "caller" /\ pc = "start"
  /\ LET out == generateCoreForChip(argv[1], fs, Arg(argv, 2))
     IN /\ fs' = [fs EXCEPT !.root = out.root]
        /\ ret' = [threw |-> out.threw, result |-> out.result]
  /\ pc' = "done"
  /\ UNCHANGED <<script, argv, root0, fusesoc, verbose, filterPattern, loopVars,
                 coreName, stdout, stderr, exitCode, calls>>

\* generate-cores.js, main() up to the forEach.
GenerateCoresStart ==
  /\ script = "generate-cores.js" /\ pc = "start"
  /\ LET chipNumbers == getAllChipNumbers(fs.src)
     IN IF ~fs.srcExists
        THEN /\ stderr' = << <<"Error: Source directory not found: ", "<root>/", "source-7400">> >>
             /\ exitCode' = 1 /\ pc' = "done"
             /\ UNCHANGED <<items, stdout>>
        ELSE IF Len(chipNumbers) = 0
        THEN /\ stderr' = << <<"Error: No chip files found in source-7400 directory">> >>
             /\ exitCode' = 1 /\ pc' = "done"
             /\ UNCHANGED <<items, stdout>>
        ELSE /\ items' = chipNumbers
             /\ stdout' = << <<"Found ">> \o NumStr(Len(chipNumbers)) \o <<" chips to process:">> >>
             /\ pc' = "loop"
             /\ UNCHANGED <<stderr, exitCode>>
  /\ UNCHANGED <<script, argv, fs, root0, fusesoc, verbose, filterPattern, discovered,
                 index, successCount, failureCount, failures, coreName, ret, calls>>

\* One call of the forEach callback of generate-cores.js.  An exception out
\* of the callback ends the process with status 1.
GenerateCoresStep ==
  /\ script = "generate-cores.js" /\ pc = "loop" /\ index < Len(items)
  /\ LET chipNumber == items[index + 1]
         out == generateCoreForChip(chipNumber, fs, ArgOrNull(argv, 1))
     IN /\ calls' = Append(calls, [op |-> "generate", arg |-> chipNumber,
                                ok |-> ~out.threw /\ out.result.success])
        /\ IF out.threw
           THEN /\ stderr' = Append(stderr, <<"Uncaught ">> \o out.error)
                /\ exitCode' = 1 /\ pc' = "done"
                /\ UNCHANGED <<fs, index, successCount, failureCount, failures, stdout>>
           ELSE /\ fs' = [fs EXCEPT !.root = out.root]
                /\ index' = index + 1
                /\ UNCHANGED <<exitCode, pc>>
                /\ IF out.result.success
                   THEN /\ successCount' = successCount + 1
                        /\ stdout' = Append(stdout, <<"<check> ">> \o chipNumber \o <<": ">>
                                                      \o out.result.message)
                        /\ UNCHANGED <<failureCount, failures, stderr>>
                   ELSE /\ failureCount' = failureCount + 1
                        /\ failures' = Append(failures, [name |-> chipNumber,
                                                         message |-> out.result.message])
                        /\ stderr' = Append(stderr, <<"<cross> ">> \o chipNumber \o <<": ">>
                                                      \o out.result.message)
                        /\ UNCHANGED <<successCount, stdout>>
  /\ UNCHANGED <<script, argv, root0, fusesoc, verbose, filterPattern, discovered,
                 items, coreName, ret>>

\* The failures, as the summary lists them.
FailureLines(fails) == [i \in 1..Len(fails) |-> <<"  ">> \o fails[i].name \o <<": ">> \o fails[i].message]

\* generate-cores.js, main() after the forEach.
GenerateCoresSummary ==
  /\ script = "generate-cores.js" /\ pc = "loop" /\ index = Len(items)
  /\ LET summary == << <<"Summary:">>,
                       <<"  Success: ">> \o NumStr(successCount),
                       <<"  Failed:  ">> \o NumStr(failureCount) >>
     IN IF Len(failures) > 0
        THEN /\ stdout' = stdout \o summary \o << <<"Failures:">> >>
             /\ stderr' = stderr \o FailureLines(failures)
             /\ exitCode' = 1
        ELSE /\ stdout' = stdout \o summary
             /\ exitCode' = 0
             /\ UNCHANGED stderr
  /\ pc' = "done"
  /\ UNCHANGED <<script, argv, fs, root0, fusesoc, verbose, filterPattern, loopVars,
                 coreName, ret, calls>>

\* test-core.js, main(): the argument check.
TestCoreStart ==
  /\ script = "test-core.js" /\ pc = "start"
  /\ IF Len(argv) < 1
     THEN /\ stderr' = <<TestCoreUsage>>
          /\ exitCode' = 1 /\ pc' = "done"
     ELSE /\ pc' = "probe"
          /\ UNCHANGED <<stderr, exitCode>>
  /\ UNCHANGED <<script, argv, fs, root0, fusesoc, verbose, filterPattern, loopVars,
                 coreName, ret, stdout, calls>>

\* test-core.js, main(): the orchestrator check.
TestCoreProbe ==
  /\ script = "test-core.js" /\ pc = "probe"
  /\ calls' = Append(calls, [op |-> "which", arg |-> <<"fusesoc">>, ok |-> fusesoc.available])
  /\ IF ~isFuseSoCAvailable(fusesoc)
     THEN /\ stderr' = InstallGuidance
          /\ exitCode' = 1 /\ pc' = "done"
     ELSE /\ pc' = "resolve"
          /\ UNCHANGED <<stderr, exitCode>>
  /\ UNCHANGED <<script, argv, fs, root0, fusesoc, verbose, filterPattern, loopVars,
                 coreName, ret, stdout>>

\* test-core.js, main(): the arguments and parseCoreName in its try/catch.
TestCoreResolve ==
  /\ script = "test-core.js" /\ pc = "resolve"
  /\ verbose' = IsVerbose(argv)
  /\ LET parsed == parseCoreName(argv[1], fs)
     IN /\ calls' = calls \o parsed.calls
        /\ IF parsed.threw
           THEN /\ stderr' = << <<"Error: ">> \o parsed.error >>
                /\ exitCode' = 1 /\ pc' = "done"
                /\ UNCHANGED <<coreName, stdout>>
           ELSE /\ coreName' = parsed.value
                /\ stdout' = IF IsVerbose(argv)
                             THEN << <<"Core name: ">> \o parsed.value, <<>> >>
                             ELSE stdout
                /\ pc' = "run"
                /\ UNCHANGED <<stderr, exitCode>>
  /\ UNCHANGED <<script, argv, fs, root0, fusesoc, filterPattern, loopVars, ret>>

\* test-core.js, main(): the simulation and its report.
TestCoreRun ==
  /\ script = "test-core.js" /\ pc = "run"
  /\ \E passed \in BOOLEAN :
       LET result == runFuseSoCSim(coreName, verbose, passed)
       IN
       /\ IF result.success
          THEN /\ stdout' = stdout
                              \o (IF ~verbose /\ ~Falsy(result.output)
                                  THEN <<result.output>> ELSE <<>>)
                              \o <<result.message>>
               /\ exitCode' = 0
               /\ UNCHANGED stderr
          ELSE /\ stderr' = <<result.message>>
                              \o (IF ~Falsy(result.output)
                                  THEN << <<>>, <<"Output:">>, result.output >> ELSE <<>>)
               /\ exitCode' = 1
               /\ UNCHANGED stdout
       /\ calls' = Append(calls, [op |-> "run", arg |-> coreName, ok |-> passed])
  /\ pc' = "done"
  /\ UNCHANGED <<script, argv, fs, root0, fusesoc, verbose, filterPattern, loopVars,
                 coreName, ret>>

\* test-cores.js, main(): the arguments and the orchestrator check.
TestCoresStart ==
  /\ script = "test-cores.js" /\ pc = "start"
  /\ verbose' = IsVerbose(argv)
  /\ filterPattern' = FilterPattern(argv)
  /\ calls' = Append(calls, [op |-> "which", arg |-> <<"fusesoc">>, ok |-> fusesoc.available])
  /\ IF ~isFuseSoCAvailable(fusesoc)
     THEN /\ stderr' = InstallGuidance
          /\ exitCode' = 1 /\ pc' = "done"
     ELSE /\ pc' = "list"
          /\ UNCHANGED <<stderr, exitCode>>
  /\ UNCHANGED <<script, argv, fs, root0, fusesoc, loopVars, coreName, ret, stdout>>

\* The cores to test, as main() lists them before the forEach.
FoundLines(cores, verb) ==
  << <<"Found ">> \o NumStr(Len(cores)) \o <<" icechips core(s) to test:">> >>
    \o (IF verb \/ Len(cores) <= ListAllLimit
        THEN [i \in 1..Len(cores) |-> <<"  ">> \o cores[i]]
        ELSE << <<"  ">> \o cores[1] \o <<" ... ">> \o cores[Len(cores)] >>)
    \o << <<>> >>

\* test-cores.js, main(): discovery and the filter.
TestCoresDiscover ==
  /\ script = "test-cores.js" /\ pc = "list"
  /\ calls' = Append(calls, [op |-> "list-cores", arg |-> <<"fusesoc">>,
                          ok |-> ~fusesoc.listFails])
  /\ LET listed == getAllIceChipsCores(fusesoc)
         cores == IF ~Falsy(filterPattern) THEN filterCores(listed.value, filterPattern)
                  ELSE listed.value
         Fail(message) ==
           /\ stderr' = message
           /\ exitCode' = 1 /\ pc' = "done"
           /\ UNCHANGED <<items, stdout>>
     IN IF listed.threw
        THEN Fail(<< <<"Error: ">> \o listed.error >>) /\ UNCHANGED discovered
        ELSE /\ discovered' = listed.value
             /\ IF Len(listed.value) = 0
                THEN Fail(<< <<"Error: No icechips cores found.">>,
                             <<"Make sure core files are in the project root and fusesoc.conf is configured.">> >>)
                ELSE IF Len(cores) = 0
                THEN Fail(<< <<"Error: No cores match filter pattern: ">> \o filterPattern >>)
                ELSE /\ items' = cores
                     /\ stdout' = FoundLines(cores, verbose)
                     /\ pc' = "loop"
                     /\ UNCHANGED <<stderr, exitCode>>
  /\ UNCHANGED <<script, argv, fs, root0, fusesoc, verbose, filterPattern, index,
                 successCount, failureCount, failures, coreName, ret>>

\* `[${index + 1}/${cores.length}]`
Progress(i, n) == <<"[">> \o NumStr(i) \o <<"/">> \o NumStr(n) \o <<"]">>

\* One call of the forEach callback of test-cores.js.
TestCoresStep ==
  /\ script = "test-cores.js" /\ pc = "loop" /\ index < Len(items)
  /\ \E passed \in BOOLEAN :
       LET core == items[index + 1]
           progress == Progress(index + 1, Len(items))
           result == runFuseSoCSim(core, verbose, passed)
           before == IF verbose
                     THEN << progress \o <<" Testing ">> \o core \o <<"...">> >>
                     ELSE <<>>
           after == IF verbose THEN << <<>> >> ELSE <<>>
       IN /\ calls' = Append(calls, [op |-> "run", arg |-> core, ok |-> passed])
          /\ IF result.success
             THEN /\ successCount' = successCount + 1
                  /\ stdout' = stdout \o before
                       \o (IF verbose
                           THEN << progress \o <<" <check> ">> \o core \o <<": ">> \o result.message >>
                           ELSE << progress \o <<" ">> \o core \o <<"... ", "<check>">> >>)
                       \o after
                  /\ UNCHANGED <<failureCount, failures, stderr>>
             ELSE /\ failureCount' = failureCount + 1
                  /\ failures' = Append(failures, [name |-> core, message |-> result.message,
                                                   output |-> result.output])
                  /\ IF verbose
                     THEN /\ stdout' = stdout \o before \o after
                          /\ stderr' = stderr
                               \o << progress \o <<" <cross> ">> \o core \o <<": ">> \o result.message >>
                               \o (IF ~Falsy(result.output) THEN <<result.output>> ELSE <<>>)
                     ELSE /\ stdout' = Append(stdout, progress \o <<" ">> \o core
                                                        \o <<"... ", "<cross>">>)
                          /\ UNCHANGED stderr
                  /\ UNCHANGED successCount
  /\ index' = index + 1
  /\ UNCHANGED <<script, argv, fs, root0, fusesoc, pc, verbose, filterPattern, discovered,
                 items, coreName, ret, exitCode>>

\* test-cores.js, main() after the forEach.
TestCoresSummary ==
  /\ script = "test-cores.js" /\ pc = "loop" /\ index = Len(items)
  /\ LET summary == << <<>>,
                       <<"Summary:">>,
                       <<"  Total:   ">> \o NumStr(Len(items)),
                       <<"  Success: ">> \o NumStr(successCount),
                       <<"  Failed:  ">> \o NumStr(failureCount) >>
     IN IF Len(failures) > 0
        THEN /\ stdout' = stdout \o summary \o << <<>>, <<"Failures:">> >>
             /\ stderr' = stderr \o FailureLines(failures)
             /\ exitCode' = 1
        ELSE /\ stdout' = stdout \o summary \o << <<>>, <<"All cores passed!">> >>
             /\ exitCode' = 0
             /\ UNCHANGED stderr
  /\ pc' = "done"
  /\ UNCHANGED <<script, argv, fs, root0, fusesoc, verbose, filterPattern, loopVars,
                 coreName, ret, calls>>

Next ==
  \/ RunGenerateCore
  \/ CallGenerateCoreForChip
  \/ GenerateCoresStart
  \/ GenerateCoresStep
  \/ GenerateCoresSummary
  \/ TestCoreStart
  \/ TestCoreProbe
  \/ TestCoreResolve
  \/ TestCoreRun
  \/ TestCoresStart
  \/ TestCoresDiscover
  \/ TestCoresStep
  \/ TestCoresSummary

Spec == Init /\ [][Next]_vars

\* ------------------------------------------- generate, then test-core.js

\* The runs that start with a generator: `node generate-core.js <args>` or a
\* call of generateCoreForChip.
InitRoundTrip ==
  \/ \E a \in GenerateCoreArgs, t \in Trees :
       t.srcExists /\ Start("generate-core.js", a, t, NoOrchestrator)
  \/ \E a \in CallerArgs, t \in Trees :
       t.srcExists /\ Start("caller", a, t, NoOrchestrator)

\* The command lines of test-core.js that name a chip by its bare number.
TestCoreChipArgs ==
  {<<c>> : c \in Chips} \cup {<<c, <<"--verbose">> >> : c \in Chips}

\* Once the generator has finished, `node test-core.js <chip> [--verbose]` is
\* started in the project tree the generator left.
LaunchTestCore ==
  /\ script \in {"generate-core.js", "caller"} /\ pc = "done"
  /\ \E a \in TestCoreChipArgs, o \in Orchestrators :
       /\ o.listFails
       /\ argv' = a
       /\ fusesoc' = o
  /\ script' = "test-core.js"
  /\ pc' = "start"
  /\ verbose' = FALSE
  /\ coreName' = Null /\ ret' = Null
  /\ stdout' = <<>> /\ stderr' = <<>> /\ exitCode' = -1 /\ calls' = <<>>
  /\ UNCHANGED <<fs, root0, filterPattern, loopVars>>

NextRoundTrip ==
  \/ RunGenerateCore
  \/ CallGenerateCoreForChip
  \/ LaunchTestCore
  \/ TestCoreStart
  \/ TestCoreProbe
  \/ TestCoreResolve
  \/ TestCoreRun

SpecRoundTrip == InitRoundTrip /\ [][NextRoundTrip]_vars

\* ------------------------------------------------------------------- claims

\* The run is over: the process has exited, or the caller's call has returned
\* or thrown.
Done == pc = "done"

\* The manifests written in this run (a manifest left by an earlier run never
\* equals one this run writes: its module names are not those of a source).
Written == {c \in DOMAIN fs.root : c \notin DOMAIN root0 \/ fs.root[c] # root0[c]}

\* The state of the chip's two source files.
RtlMissing(chipNumber) == RtlFileName(chipNumber) \notin DOMAIN fs.src
TbMissing(chipNumber) == TbFileName(chipNumber) \notin DOMAIN fs.src
Extractable(chipNumber) ==
  /\ ~RtlMissing(chipNumber) /\ ~TbMissing(chipNumber)
  /\ fs.src[RtlFileName(chipNumber)] = RtlText(chipNumber)
  /\ fs.src[TbFileName(chipNumber)] = TbText

\* package.json can be read and parsed.
PackageJsonReadable == fs.pkg.state = "ok"

\* C1: a run of the generate-core CLI with a chip identifier exits 0 only if
\* it wrote the manifest icechips_<chip>.core, and a run that ends without
\* writing it prints an error to standard error and exits 1.
C1_ExitZeroOnlyIfManifestWritten ==
  (script = "generate-core.js" /\ Done /\ Len(argv) >= 1) =>
    /\ exitCode = 0 => argv[1] \in Written
    /\ argv[1] \notin Written => (exitCode = 1 /\ stderr # <<>>)

\* C2, as claimed: generateCoreForChip without an explicit version throws to
\* its caller exactly when package.json is missing or malformed, and returns
\* a Result otherwise.
C2_LookupErrorPropagates ==
  (script = "caller" /\ Done) =>
    (ret.threw <=> (Arg(argv, 2) = Null /\ ~PackageJsonReadable))

\* C2, amended: generateCoreForChip never throws to its caller; without an
\* explicit version (none, or an empty one), when package.json is missing or
\* malformed, it returns a Result with success=false whose message is
\* "Error processing <chip>: <the lookup error>".
C2_LookupErrorReturnedAsResult ==
  (script = "caller" /\ Done) =>
    /\ ~ret.threw
    /\ (Falsy(Arg(argv, 2)) /\ ~PackageJsonReadable) =>
         /\ ~ret.result.success
         /\ StartsWith(ret.result.message, <<"Error processing ">> \o argv[1] \o <<": ">>)
         /\ Len(ret.result.message) > Len(argv[1]) + 2

C2_Witness ==
  /\ script = "caller" /\ Done
  /\ Arg(argv, 2) = Null /\ fs.pkg.state = "malformed"
  /\ Extractable(argv[1])
  /\ ~ret.threw /\ ~ret.result.success

\* C3, as claimed: whenever generateCoreForChip returns a Result with
\* success=false, the project root's files are unchanged, and when the
\* logic-model file is missing the message names its path.
C3_FailureWritesNothingAndNamesRtl ==
  (script = "caller" /\ Done /\ ~ret.threw /\ ~ret.result.success) =>
    /\ fs.root = root0
    /\ RtlMissing(argv[1]) =>
         Includes(ret.result.message, SourcePath(RtlFileName(argv[1])))

\* C3, amended: whenever generateCoreForChip returns a Result with
\* success=false, the project root's files are unchanged; when the
\* logic-model file is missing and the version was resolved (a non-empty
\* explicit version, or a readable package.json), the message is "RTL file
\* not found: <its path>".
C3_FailureWritesNothing ==
  (script = "caller" /\ Done /\ ~ret.threw /\ ~ret.result.success) =>
    /\ fs.root = root0
    /\ (RtlMissing(argv[1]) /\ (~Falsy(Arg(argv, 2)) \/ PackageJsonReadable)) =>
         ret.result.message =
           <<"RTL file not found: ">> \o SourcePath(RtlFileName(argv[1]))

C3_Witness ==
  /\ script = "caller" /\ Done
  /\ ~ret.threw /\ ~ret.result.success
  /\ RtlMissing(argv[1]) /\ PackageJsonReadable
  /\ argv[1] \in DOMAIN root0
  /\ fs.root = root0

\* The version the claim C4 gives the manifest: the explicit argument when
\* one is supplied (an empty one counts as none), else the package.json
\* version, else 0.1.0.
C4_ClaimedVersion ==
  IF ~Falsy(Arg(argv, 2)) THEN Arg(argv, 2)
  ELSE IF PackageJsonReadable /\ fs.pkg.version # Null THEN fs.pkg.version
  ELSE DefaultVersion

\* What C4 says of a call on the chip with the version v.
C4_Generated(chipNumber, v) ==
  /\ ~ret.threw /\ ret.result.success
  /\ ret.result.chipNumber = chipNumber
  /\ ret.result.rtlModuleName = <<RtlModule(chipNumber)>>
  /\ ret.result.tbModuleName = <<"test">>
  /\ chipNumber \in DOMAIN fs.root
  /\ fs.root[chipNumber] =
       generateCoreFile(chipNumber, v, <<RtlModule(chipNumber)>>, <<"test">>)
  /\ fs.root[chipNumber][2] = <<"name: ", "icechips", ":", "ttl", ":">> \o chipNumber \o <<":">> \o v
  /\ \A c \in DOMAIN root0 \ {chipNumber} : c \in DOMAIN fs.root /\ fs.root[c] = root0[c]
  /\ DOMAIN fs.root = DOMAIN root0 \cup {chipNumber}

\* C4, as claimed: when both source files exist and each has an extractable
\* module name, generateCoreForChip writes the manifest rendered from the
\* chip, the two module names and the resolved version, and returns
\* success=true with the chip and both names.
C4_WritesManifest ==
  (script = "caller" /\ Done /\ Extractable(argv[1])) =>
    C4_Generated(argv[1], C4_ClaimedVersion)

\* C4, amended: the same, provided the version can be resolved (a non-empty
\* explicit version, or a readable package.json); the resolved version is
\* the explicit argument when a non-empty one is supplied, and the
\* package.json version (default 0.1.0) only otherwise.
C4_WritesManifestWhenVersionResolves ==
  (script = "caller" /\ Done /\ Extractable(argv[1])
     /\ (~Falsy(Arg(argv, 2)) \/ PackageJsonReadable)) =>
    C4_Generated(argv[1],
      IF ~Falsy(Arg(argv, 2)) THEN Arg(argv, 2)
      ELSE IF fs.pkg.version # Null THEN fs.pkg.version
      ELSE DefaultVersion)

C4_Witness ==
  /\ script = "caller" /\ Done
  /\ Extractable(argv[1])
  /\ Arg(argv, 2) = Version092 /\ fs.pkg.version = Version100
  /\ argv[1] \in DOMAIN root0
  /\ ret.result.success /\ argv[1] \in Written

\* The arguments of the orchestrator's run commands so far, in order, and
\* of the calls of generateCoreForChip by the bulk generator.
RECURSIVE ArgsOf(_, _)
ArgsOf(log, op) ==
  IF log = <<>> THEN <<>>
  ELSE (IF Head(log).op = op THEN <<Head(log).arg>> ELSE <<>>) \o ArgsOf(Tail(log), op)

\* The calls of the kind op that ended as ok tells.
Outcomes(op, ok) == SelectSeq(calls, LAMBDA c : c.op = op /\ c.ok = ok)

Ops == {calls[i].op : i \in 1..Len(calls)}

\* The command line holds no positional identifier.
OnlyFlags == \A i \in 1..Len(argv) : argv[i] \in {<<"--verbose">>, <<"-v">>}

\* C5: a run of the test-core CLI whose arguments hold no positional
\* identifier (none at all, or only --verbose / -v) prints the usage text and
\* exits 1, without probing or invoking the orchestrator and without looking
\* a flag up as an identifier.
C5_NoIdentifierPrintsUsage ==
  (script = "test-core.js" /\ OnlyFlags) =>
    /\ calls = <<>>
    /\ Done => (stderr = <<TestCoreUsage>> /\ exitCode = 1)

\* C6: in the test-core CLI, for a bare chip identifier whose manifest does
\* not exist the run command is never invoked, the process exits 1 and,
\* once the identifier is resolved (the orchestrator being installed), the
\* error printed is "Core file not found ..."; an identifier with a colon
\* is looked up in no file and is forwarded unchanged to the run command.
C6_ResolutionOfIdentifier ==
  (script = "test-core.js" /\ Len(argv) >= 1) =>
    /\ (~Includes(argv[1], <<":">>) /\ argv[1] \notin DOMAIN root0) =>
         /\ "run" \notin Ops
         /\ Done => exitCode = 1
         /\ (Done /\ fusesoc.available) =>
              /\ Len(stderr) = 1
              /\ StartsWith(stderr[1], <<"Error: ", "Core file not found for chip ">> \o argv[1])
    /\ Includes(argv[1], <<":">>) =>
         /\ Ops \subseteq {"which", "run"}
         /\ (Done /\ fusesoc.available) => ArgsOf(calls, "run") = <<argv[1]>>

C6_Witness ==
  /\ script = "test-core.js" /\ Done
  /\ Len(argv) >= 1
  /\ argv[1] = Chip7400 /\ Chip7400 \notin DOMAIN root0
  /\ fusesoc.available
  /\ "exists" \in Ops /\ "run" \notin Ops
  /\ exitCode = 1

Bulk == script \in {"generate-cores.js", "test-cores.js"}

\* The items the bulk runner has processed, in order.
Processed == ArgsOf(calls, IF script = "test-cores.js" THEN "run" ELSE "generate")

\* C7: in both bulk runners the items processed so far are the first items
\* of the sorted list, each once and in order, whatever their outcomes, and
\* the process exits only when the whole list has been processed.
C7_EveryItemProcessedInOrder ==
  Bulk =>
    /\ Processed = SubSeq(items, 1, index)
    /\ Len(Outcomes("run", TRUE) \o Outcomes("generate", TRUE)) = successCount
    /\ Len(Outcomes("run", FALSE) \o Outcomes("generate", FALSE)) = failureCount
    /\ successCount + failureCount = index
    /\ \A i \in 1..Len(items) : \A j \in (i + 1)..Len(items) : ~StrLess(items[j], items[i])
    /\ exitCode # -1 => Processed = items
    /\ (exitCode = 1 /\ items # <<>>) => failureCount > 0

C7_Witness ==
  /\ Bulk /\ Done
  /\ Len(items) >= 2
  /\ ~calls[Len(calls) - Len(items) + 1].ok
  /\ calls[Len(calls)].ok
  /\ Processed = items
  /\ exitCode = 1

\* C8: in the bulk test runner, after the simulations of the n cores, the
\* summary reports Total = n, Success = the number of simulations that
\* succeeded and Failed = the number that failed, with one failure entry per
\* failed core; the process exits 1 if and only if Failed > 0, and otherwise
\* prints "All cores passed!" and ends with status 0.
C8_SummaryCounts ==
  (script = "test-cores.js" /\ Done /\ items # <<>>) =>
    LET passed == Outcomes("run", TRUE)
        failed == Outcomes("run", FALSE)
        Printed(line) == \E i \in 1..Len(stdout) : stdout[i] = line
    IN /\ Printed(<<"  Total:   ">> \o NumStr(Len(items)))
       /\ Printed(<<"  Success: ">> \o NumStr(Len(passed)))
       /\ Printed(<<"  Failed:  ">> \o NumStr(Len(failed)))
       /\ Len(passed) + Len(failed) = Len(items)
       /\ Len(failures) = Len(failed)
       /\ \A i \in 1..Len(failed) : failures[i].name = failed[i].arg
       /\ exitCode = 1 <=> Len(failed) > 0
       /\ Len(failed) = 0 => (exitCode = 0 /\ stdout[Len(stdout)] = <<"All cores passed!">>)
       /\ Len(failed) > 0 => ~Printed(<<"All cores passed!">>)

C8_Witness ==
  /\ script = "test-cores.js" /\ Done
  /\ Len(items) = 3
  /\ Len(Outcomes("run", TRUE)) = 1 /\ Len(Outcomes("run", FALSE)) = 2
  /\ successCount = 1 /\ failureCount = 2
  /\ exitCode = 1

\* The pattern that follows --filter on the command line, Null when there is
\* none.
C9_Pattern ==
  IF \E i \in 1..(Len(argv) - 1) : argv[i] = <<"--filter">>
  THEN argv[1 + CHOOSE i \in 1..(Len(argv) - 1) :
                  argv[i] = <<"--filter">> /\ \A j \in 1..(i - 1) : argv[j] # <<"--filter">>]
  ELSE Null

\* The discovered cores that contain the pattern, in order.
C9_Matching == SelectSeq(discovered, LAMBDA core : Includes(core, C9_Pattern))

\* C9: in the bulk test runner with --filter <pattern>, the cores simulated
\* are the discovered cores that contain the pattern, in order, and if no
\* discovered core contains it the process exits 1 and no simulation is run.
C9_FilterSelectsSubstringMatches ==
  (script = "test-cores.js" /\ C9_Pattern # Null) =>
    /\ Len(ArgsOf(calls, "run")) <= Len(C9_Matching)
    /\ ArgsOf(calls, "run") = SubSeq(C9_Matching, 1, Len(ArgsOf(calls, "run")))
    /\ (Done /\ discovered # <<>>) =>
         IF C9_Matching = <<>>
         THEN exitCode = 1 /\ ArgsOf(calls, "run") = <<>>
         ELSE ArgsOf(calls, "run") = C9_Matching

C9_Witness ==
  /\ script = "test-cores.js" /\ Done
  /\ C9_Pattern = <<"7", "4", "1", "6">>
  /\ Len(discovered) = 3
  /\ Len(C9_Matching) = 2
  /\ ArgsOf(calls, "run") = C9_Matching

\* C10: in both test runners, when the orchestrator is not installed, the
\* run prints the installation guidance and exits 1 having done nothing but
\* the probe: no core listing, no manifest or package.json lookup, no
\* simulation command.
C10_UnavailableOrchestratorStopsFirst ==
  ((script = "test-cores.js" \/ (script = "test-core.js" /\ Len(argv) >= 1))
     /\ ~fusesoc.available) =>
    /\ Ops \subseteq {"which"}
    /\ coreName = Null /\ discovered = <<>> /\ items = <<>>
    /\ Done => (stderr = InstallGuidance /\ stdout = <<>> /\ exitCode = 1)

C10_Witness ==
  /\ script = "test-core.js" /\ Done
  /\ Len(argv) >= 1
  /\ argv[1] = Chip7400 /\ Chip7400 \in DOMAIN root0
  /\ ~fusesoc.available
  /\ Ops = {"which"}
  /\ stderr = InstallGuidance /\ exitCode = 1

\* The first column of a line of the listing: what precedes its first white
\* space.
RECURSIVE C11_FirstColumn(_)
C11_FirstColumn(line) ==
  IF line = <<>> \/ IsSpace(Head(line)) THEN <<>>
  ELSE <<Head(line)>> \o C11_FirstColumn(Tail(line))

\* s is a four-part core identifier icechips:ttl:<chip-identifier>:<version>.
C11_IsCoreIdentifier(s) ==
  LET prefix == <<"icechips", ":", "ttl", ":">>
      rest == SubSeq(s, Len(prefix) + 1, Len(s))
      colons == {i \in 1..Len(rest) : rest[i] = ":"}
  IN /\ StartsWith(s, prefix)
     /\ \A i \in 1..Len(rest) : ~IsSpace(rest[i])
     /\ Cardinality(colons) = 1
     /\ \A i \in colons : 1 < i /\ i < Len(rest)

\* C11: every identifier the bulk test runner discovers, and every one it
\* passes to runFuseSoCSim, is the four-part core identifier
\* icechips:ttl:<chip-identifier>:<version> in the first column of a listed
\* line, and the discovered list is in ascending order.
C11_DiscoveredAreCoreIdentifiers ==
  script = "test-cores.js" =>
    LET Listed(s) ==
          /\ C11_IsCoreIdentifier(s)
          /\ \E i \in 1..Len(fusesoc.listing) : C11_FirstColumn(fusesoc.listing[i]) = s
        simulated == ArgsOf(calls, "run")
    IN /\ \A i \in 1..Len(discovered) : Listed(discovered[i])
       /\ \A i \in 1..Len(simulated) : Listed(simulated[i])
       /\ \A i \in 1..Len(discovered) : \A j \in (i + 1)..Len(discovered) :
            ~StrLess(discovered[j], discovered[i])

\* C12: once a generator has written the manifest of a chip, the core
\* identifier test-core.js resolves for that bare chip number, and runs the
\* simulation on, is the `name:` value of the manifest.
C12_ResolvedNameIsManifestName ==
  (/\ script = "test-core.js"
   /\ argv[1] \in Written
   /\ coreName # Null) =>
    /\ fs.root[argv[1]][2] = <<"name: ">> \o coreName
    /\ \A i \in 1..Len(ArgsOf(calls, "run")) :
         fs.root[argv[1]][2] = <<"name: ">> \o ArgsOf(calls, "run")[i]

====
